---- MODULE Spec2Model ----
(***************************************************************************)
(* Model of src/lib/homeassistant.py: the Home Assistant MQTT plugin of    *)
(* OpenEO.  Three kinds of execution contexts touch the plugin object:     *)
(*   - the MQTT client's loop thread, which delivers _on_connect,           *)
(*     _on_disconnect and _on_message one at a time;                       *)
(*   - the host's main loop, which calls poll();                           *)
(*   - the daemon threads that run _send_discovery.                        *)
(* Text (topics, payloads) is a sequence of one-character strings so that  *)
(* strip(), upper(), lower(), split() and float() are computed.            *)
(***************************************************************************)
EXTENDS Integers, Sequences, FiniteSets, Bags, TLC

(***************************************************************************)
(* Bounds of the model.                                                    *)
(***************************************************************************)
\* largest value of the clock time.time() (in seconds)
MaxTime == 2
\* largest number of _send_discovery threads alive at once
MaxThreads == 2

(***************************************************************************)
(* Program constants.                                                      *)
(***************************************************************************)
\* globalState.MIN_CHARGING_CURRENT / MAX_CHARGING_CURRENT
MIN_CHARGING_CURRENT == 6
MAX_CHARGING_CURRENT == 32

\* a dictionary key that is absent / a config value never written
Absent == "absent"

(***************************************************************************)
(* Text.                                                                   *)
(***************************************************************************)
Lowers == <<"a","b","c","d","e","f","g","h","i","j","k","l","m",
            "n","o","p","q","r","s","t","u","v","w","x","y","z">>
Uppers == <<"A","B","C","D","E","F","G","H","I","J","K","L","M",
            "N","O","P","Q","R","S","T","U","V","W","X","Y","Z">>
Digits == <<"0","1","2","3","4","5","6","7","8","9">>
Whitespace == {" ", "\n", "\t"}
\* a byte that is not valid UTF-8
BadByte == "xFF"

IsDigit(c) == \E i \in 1..10 : Digits[i] = c
DigitVal(c) == (CHOOSE i \in 1..10 : Digits[i] = c) - 1

\* str.upper() / str.lower(), one character
UpperMap == [c \in {Lowers[i] : i \in 1..26} |-> Uppers[CHOOSE i \in 1..26 : Lowers[i] = c]]
LowerMap == [c \in {Uppers[i] : i \in 1..26} |-> Lowers[CHOOSE i \in 1..26 : Uppers[i] = c]]
UpperChar(c) == IF c \in DOMAIN UpperMap THEN UpperMap[c] ELSE c
LowerChar(c) == IF c \in DOMAIN LowerMap THEN LowerMap[c] ELSE c
upper(s) == [i \in 1..Len(s) |-> UpperChar(s[i])]
lower(s) == [i \in 1..Len(s) |-> LowerChar(s[i])]

\* str.strip(): drop leading and trailing whitespace
strip(s) ==
    LET keep == {i \in 1..Len(s) : s[i] \notin Whitespace}
    IN  IF keep = {} THEN <<>>
        ELSE LET lo == CHOOSE i \in keep : \A j \in keep : i <= j
                 hi == CHOOSE i \in keep : \A j \in keep : j <= i
             IN  SubSeq(s, lo, hi)

\* bytes.decode('utf-8'): fails on an invalid byte
DecodeOk(b) == \A i \in 1..Len(b) : b[i] # BadByte

\* position of the first occurrence of character c in s, 0 when there is none
Find(s, c) == IF \E i \in 1..Len(s) : s[i] = c
              THEN CHOOSE i \in 1..Len(s) : s[i] = c /\ \A j \in 1..(i-1) : s[j] # c
              ELSE 0

(***************************************************************************)
(* float(payload) and int(float(payload)).                                 *)
(* Grammar of float(): whitespace is stripped; an optional sign; then      *)
(* a decimal number digits [. [digits]] | . digits, followed by an         *)
(* optional exponent e [sign] digits.  Digits may be grouped by single     *)
(* underscores.                                                            *)
(***************************************************************************)
\* a run of digits, with single underscores between digits
IsDigitRun(s) ==
    /\ Len(s) > 0
    /\ IsDigit(s[1]) /\ IsDigit(s[Len(s)])
    /\ \A i \in 1..Len(s) : IsDigit(s[i]) \/ s[i] = "_"
    /\ \A i \in 1..(Len(s)-1) : ~(s[i] = "_" /\ s[i+1] = "_")

\* the digits of a digit run, underscores removed
RECURSIVE OnlyDigits(_)
OnlyDigits(s) == IF s = <<>> THEN <<>>
                 ELSE IF s[1] = "_" THEN OnlyDigits(Tail(s))
                 ELSE <<s[1]>> \o OnlyDigits(Tail(s))

\* value of a sequence of digits (0 for the empty sequence)
RECURSIVE DigitsVal(_)
DigitsVal(s) == IF s = <<>> THEN 0
                ELSE 10 * DigitsVal(SubSeq(s, 1, Len(s)-1)) + DigitVal(s[Len(s)])

RECURSIVE Pow10(_)
Pow10(n) == IF n <= 0 THEN 1 ELSE 10 * Pow10(n-1)

\* the text without its leading sign, and the sign
Unsigned(s) == IF s # <<>> /\ s[1] \in {"+", "-"} THEN Tail(s) ELSE s
SignOf(s) == IF s # <<>> /\ s[1] = "-" THEN -1 ELSE 1

\* mantissa and exponent parts of an unsigned decimal literal
ExpPos(s) == Find(lower(s), "e")
Mantissa(s) == IF ExpPos(s) = 0 THEN s ELSE SubSeq(s, 1, ExpPos(s) - 1)
ExpPart(s) == IF ExpPos(s) = 0 THEN <<>> ELSE SubSeq(s, ExpPos(s) + 1, Len(s))
IntPart(m) == IF Find(m, ".") = 0 THEN m ELSE SubSeq(m, 1, Find(m, ".") - 1)
FracPart(m) == IF Find(m, ".") = 0 THEN <<>> ELSE SubSeq(m, Find(m, ".") + 1, Len(m))

IsMantissa(m) ==
    /\ IntPart(m) = <<>> \/ IsDigitRun(IntPart(m))
    /\ FracPart(m) = <<>> \/ IsDigitRun(FracPart(m))
    /\ IntPart(m) # <<>> \/ FracPart(m) # <<>>

IsDecimal(u) ==
    /\ IsMantissa(Mantissa(u))
    /\ ExpPos(u) # 0 => IsDigitRun(Unsigned(ExpPart(u)))

\* int(float(s)) does not raise: s is a decimal literal.  float() raises
\* ValueError on any other text but inf, infinity and nan, and int() raises
\* OverflowError or ValueError on those
IntFloatOk(s) == LET u == Unsigned(strip(s))
                 IN  IsDecimal(u)

\* int(float(s)) for a decimal literal: the value truncated toward zero
IntFloat(s) ==
    LET t  == strip(s)
        u  == Unsigned(t)
        m  == Mantissa(u)
        id == OnlyDigits(IntPart(m))
        fd == OnlyDigits(FracPart(m))
        e  == SignOf(ExpPart(u)) * DigitsVal(OnlyDigits(Unsigned(ExpPart(u))))
        n  == DigitsVal(id \o fd)
        k  == e - Len(fd)
        mag == IF k >= 0 THEN n * Pow10(k) ELSE n \div Pow10(-k)
    IN  SignOf(t) * mag

(***************************************************************************)
(* Dictionaries: globalState.stateDict, and globalState.configDB, a store   *)
(* keyed by (plugin name, setting name).  A dictionary is a function whose  *)
(* domain is the set of keys that were written.                            *)
(***************************************************************************)
DictGet(d, k, default) == IF k \in DOMAIN d THEN d[k] ELSE default
DictSet(d, k, v) == [x \in (DOMAIN d) \cup {k} |-> IF x = k THEN v ELSE d[x]]
EmptyDict == [x \in {} |-> Absent]

\* globalState.configDB.get(plugin, key, default) / .set(plugin, key, value)
ConfigGet(db, plugin, key, default) == DictGet(db, <<plugin, key>>, default)
ConfigSet(db, plugin, key, value) == DictSet(db, <<plugin, key>>, value)

Min(a, b) == IF a <= b THEN a ELSE b

(***************************************************************************)
(* Names and payload literals of the source, as text.                      *)
(***************************************************************************)
SWITCH == <<"s","w","i","t","c","h">>
SCHEDULER == <<"s","c","h","e","d","u","l","e","r">>
LOADMANAGEMENT == <<"l","o","a","d","m","a","n","a","g","e","m","e","n","t">>
\* valid_plugins of _handle_enable_plugin_command
valid_plugins == {SCHEDULER, SWITCH, LOADMANAGEMENT}
\* the payloads that switch the charger on, compared after upper()
SwitchOnWords == { <<"O","N">>, <<"T","R","U","E">>, <<"1">> }
\* the payloads that enable a plugin, compared after lower()
EnableWords == { <<"t","r","u","e">>, <<"o","n">>, <<"1">>,
                 <<"e","n","a","b","l","e","d">> }
MANUAL == <<"m","a","n","u","a","l">>
SCHEDULE == <<"s","c","h","e","d","u","l","e">>
OFF == <<"o","f","f">>

\* self.get_config("device_id"), self.get_config("mqtt_discovery_prefix")
device_id == "openeo_charger_1"
discovery_prefix == "homeassistant"

\* f"openeo/{device_id}/command/{name}/set", as its path segments
CommandTopic(name) == <<"openeo", device_id, "command", name, "set">>
\* command_topics of _subscribe_to_commands
command_topics == << CommandTopic("switch"), CommandTopic("current_limit"),
                     CommandTopic("mode"), CommandTopic("enable_plugin") >>
\* f"openeo/{device_id}/state"
StateTopic == <<"openeo", device_id, "state">>

(***************************************************************************)
(* The command handlers, as functions of the config store.  Each returns   *)
(* the store after the handler; a handler that catches an error or returns  *)
(* early returns the store as it was at that point.                        *)
(***************************************************************************)
\* max_allowed that takes the overall limit without the hardware maximum
max_allowed_overall_only(sd) ==
    DictGet(sd, "eo_overall_limit_current", MAX_CHARGING_CURRENT)

\* max_allowed = min(MAX_CHARGING_CURRENT, stateDict.get("eo_overall_limit_current", MAX))
max_allowed(sd) ==
    Min(MAX_CHARGING_CURRENT, DictGet(sd, "eo_overall_limit_current", MAX_CHARGING_CURRENT))

\* _handle_switch_command that compares the payload as it came
_handle_switch_command_case_sensitive(db, payload) ==
    LET switch_on == payload \in SwitchOnWords
        db1 == ConfigSet(db, SWITCH, "enabled", TRUE)
        db2 == ConfigSet(db1, SWITCH, "on", switch_on)
    IN  ConfigSet(db2, SCHEDULER, "enabled", FALSE)

\* _handle_switch_command that leaves the scheduler plugin as it was
_handle_switch_command_keeps_scheduler(db, payload) ==
    LET switch_on == upper(payload) \in SwitchOnWords
        db1 == ConfigSet(db, SWITCH, "enabled", TRUE)
    IN  ConfigSet(db1, SWITCH, "on", switch_on)

\* _handle_switch_command(payload), lines 160-176
_handle_switch_command(db, payload) ==
    LET switch_on == upper(payload) \in SwitchOnWords
        db1 == ConfigSet(db, SWITCH, "enabled", TRUE)
        db2 == ConfigSet(db1, SWITCH, "on", switch_on)
    IN  ConfigSet(db2, SCHEDULER, "enabled", FALSE)

\* _handle_current_limit_command whose upper bound is exclusive
_handle_current_limit_command_exclusive(db, sd, payload) ==
    IF ~IntFloatOk(payload) THEN db
    ELSE LET current_limit == IntFloat(payload)
         IN  IF ~(MIN_CHARGING_CURRENT <= current_limit /\ current_limit < max_allowed(sd))
             THEN db
             ELSE LET db1 == ConfigSet(db, SWITCH, "amps", current_limit)
                      db2 == ConfigSet(db1, SWITCH, "enabled", TRUE)
                  IN  ConfigSet(db2, SCHEDULER, "enabled", FALSE)

\* _handle_current_limit_command that clamps a value above the range
_handle_current_limit_command_clamping(db, sd, payload) ==
    IF ~IntFloatOk(payload) THEN db
    ELSE LET current_limit == Min(IntFloat(payload), max_allowed(sd))
         IN  IF ~(MIN_CHARGING_CURRENT <= current_limit /\ current_limit <= max_allowed(sd))
             THEN db
             ELSE LET db1 == ConfigSet(db, SWITCH, "amps", current_limit)
                      db2 == ConfigSet(db1, SWITCH, "enabled", TRUE)
                  IN  ConfigSet(db2, SCHEDULER, "enabled", FALSE)

_handle_current_limit_command(db, sd, payload) ==
    IF ~IntFloatOk(payload) THEN db
    ELSE LET current_limit == IntFloat(payload)
         IN  IF ~(MIN_CHARGING_CURRENT <= current_limit /\ current_limit <= max_allowed(sd))
             THEN db
             ELSE LET db1 == ConfigSet(db, SWITCH, "amps", current_limit)
                      db2 == ConfigSet(db1, SWITCH, "enabled", TRUE)
                  IN  ConfigSet(db2, SCHEDULER, "enabled", FALSE)

\* _handle_mode_command whose schedule mode leaves the switch plugin alone
_handle_mode_command_keeps_switch(db, payload) ==
    LET mode == lower(payload)
    IN  IF mode = MANUAL
        THEN ConfigSet(ConfigSet(db, SWITCH, "enabled", TRUE), SCHEDULER, "enabled", FALSE)
        ELSE IF mode = SCHEDULE
        THEN ConfigSet(db, SCHEDULER, "enabled", TRUE)
        ELSE IF mode = OFF
        THEN ConfigSet(ConfigSet(db, SCHEDULER, "enabled", FALSE), SWITCH, "enabled", FALSE)
        ELSE db

_handle_mode_command(db, payload) ==
    LET mode == lower(payload)
    IN  IF mode = MANUAL
        THEN ConfigSet(ConfigSet(db, SWITCH, "enabled", TRUE), SCHEDULER, "enabled", FALSE)
        ELSE IF mode = SCHEDULE
        THEN ConfigSet(ConfigSet(db, SCHEDULER, "enabled", TRUE), SWITCH, "enabled", FALSE)
        ELSE IF mode = OFF
        THEN ConfigSet(ConfigSet(db, SCHEDULER, "enabled", FALSE), SWITCH, "enabled", FALSE)
        ELSE db

\* _handle_enable_plugin_command without the allow-list
_handle_enable_plugin_command_unchecked(db, payload) ==
    IF Find(payload, ":") = 0 THEN db
    ELSE LET plugin_name == SubSeq(payload, 1, Find(payload, ":") - 1)
             enabled_str == SubSeq(payload, Find(payload, ":") + 1, Len(payload))
             enabled == lower(enabled_str) \in EnableWords
         IN  ConfigSet(db, plugin_name, "enabled", enabled)

_handle_enable_plugin_command(db, payload) ==
    IF Find(payload, ":") = 0 THEN db
    ELSE LET plugin_name == SubSeq(payload, 1, Find(payload, ":") - 1)
             enabled_str == SubSeq(payload, Find(payload, ":") + 1, Len(payload))
             enabled == lower(enabled_str) \in EnableWords
         IN  IF plugin_name \notin valid_plugins THEN db
             ELSE ConfigSet(db, plugin_name, "enabled", enabled)

\* the handler _on_message dispatches a topic to
Dispatch(topic) ==
    IF topic = CommandTopic("switch") THEN "switch"
    ELSE IF topic = CommandTopic("current_limit") THEN "current_limit"
    ELSE IF topic = CommandTopic("mode") THEN "mode"
    ELSE IF topic = CommandTopic("enable_plugin") THEN "enable_plugin"
    ELSE "unknown"

\* the store after the handler of a topic ran on a decoded, stripped payload
Handle(db, sd, topic, payload) ==
    IF Dispatch(topic) = "switch" THEN _handle_switch_command(db, payload)
    ELSE IF Dispatch(topic) = "current_limit" THEN _handle_current_limit_command(db, sd, payload)
    ELSE IF Dispatch(topic) = "mode" THEN _handle_mode_command(db, payload)
    ELSE IF Dispatch(topic) = "enable_plugin" THEN _handle_enable_plugin_command(db, payload)
    ELSE db

(***************************************************************************)
(* The discovery catalog: sensors + control_entities of _send_discovery.   *)
(***************************************************************************)
Entity(component, object_id) == [component |-> component, object_id |-> object_id]
sensors == <<
    Entity("sensor", "charger_state"), Entity("sensor", "amps_requested"),
    Entity("sensor", "amps_limit"), Entity("sensor", "power_delivered"),
    Entity("sensor", "power_requested"), Entity("sensor", "voltage"),
    Entity("sensor", "frequency"), Entity("sensor", "current_site"),
    Entity("sensor", "current_vehicle"), Entity("sensor", "current_solar"),
    Entity("binary_sensor", "vehicle_connected"),
    Entity("binary_sensor", "charging_active") >>
control_entities == <<
    Entity("switch", "charger_switch"), Entity("number", "current_limit"),
    Entity("select", "charger_mode") >>
all_entities == sensors \o control_entities

\* f"{discovery_prefix}/{entity['component']}/{device_id}/{entity['object_id']}/config"
DiscoveryTopic(entity) ==
    <<discovery_prefix, entity.component, device_id, entity.object_id, "config">>

(***************************************************************************)
(* State.                                                                  *)
(***************************************************************************)
VARIABLES
    MQTT_AVAILABLE,  \* the module-level flag set by the import of paho
    pluginConfig,    \* the plugin's settings: enabled, publish_interval
    connected,       \* self.connected
    discovery_sent,  \* self.discovery_sent
    last_publish,    \* self.last_publish
    now,             \* time.time()
    configDB,        \* globalState.configDB
    stateDict,       \* globalState.stateDict
    pollCtx,         \* the position and locals of the running poll()
    threads,         \* the bag of live _send_discovery threads
    catalogPubs,     \* discovery runs completed since the last connect event
    published,       \* the retained documents an observer of the client has seen
    commanded,       \* the mode the last command an observer saw asked for
    mqttCalls,       \* the mqtt_client calls made by the last step
    lastOp           \* the last step taken and how it ended

vars == << MQTT_AVAILABLE, pluginConfig, connected, discovery_sent, last_publish,
           now, configDB, stateDict, pollCtx, threads, catalogPubs, published, commanded,
           mqttCalls, lastOp >>

\* state owned by other components, never written by the connection callbacks
envVars == << MQTT_AVAILABLE, pluginConfig, stateDict >>

Op(op, step, outcome, arg) == [op |-> op, step |-> step, outcome |-> outcome, arg |-> arg]

Subscribe(topic, ok) == [call |-> "subscribe", topic |-> topic, retain |-> FALSE,
                         payload |-> Absent, ok |-> ok]
Publish(topic, payload, retain, ok) == [call |-> "publish", topic |-> topic,
                         retain |-> retain, payload |-> payload, ok |-> ok]

PollIdle == [pc |-> "idle", current_time |-> 0, snapshot |-> Absent]

\* a thread created by threading.Thread(target=self._send_discovery).start()
\* pc: 0 before line 270, k while entity k is next in the loop of line 449;
\* max: max_allowed_current; attempts: the publish() calls this run has made
NewThread == [pc |-> 0, max |-> 0, attempts |-> 0]
Spawn(ts) == ts (+) SetToBag({NewThread})
CanSpawn == BagCardinality(threads) < MaxThreads

\* the client exists once __init__ ran _setup_mqtt
ClientRunning == MQTT_AVAILABLE /\ pluginConfig.enabled

(***************************************************************************)
(* Callbacks of the MQTT client's loop thread.                             *)
(***************************************************************************)
\* result codes of CONNACK / of a disconnect
ConnectCodes == {0, 5}
DisconnectCodes == {0, 1}

\* the subscriptions that fail: none, one of them, all of them
SubscribeFailures == { {}, {2}, {1, 2, 3, 4} }

\* _subscribe_to_commands: one subscribe per topic; failing ones are logged
_subscribe_to_commands(failing) ==
    [i \in 1..Len(command_topics) |-> Subscribe(command_topics[i], i \notin failing)]

\* _on_connect(client, userdata, flags, rc).  The broker acknowledges a
\* connection only when none is established.
_on_connect(rc, failing, fault) ==
    /\ ClientRunning
    /\ ~connected
    /\ IF rc = 0
       THEN /\ connected' = TRUE
            /\ catalogPubs' = 0
            /\ IF fault = "get_config"
               THEN \* get_config("device_id") raises in _subscribe_to_commands
                    /\ mqttCalls' = <<>>
                    /\ threads' = threads
                    /\ lastOp' = Op("_on_connect", "", "raised", [rc |-> rc])
               ELSE /\ mqttCalls' = _subscribe_to_commands(failing)
                    /\ IF fault = "thread_start"
                       THEN \* Thread.start() raises RuntimeError
                            /\ threads' = threads
                            /\ lastOp' = Op("_on_connect", "", "raised", [rc |-> rc])
                       ELSE /\ CanSpawn
                            /\ threads' = Spawn(threads)
                            /\ lastOp' = Op("_on_connect", "", "returned", [rc |-> rc])
       ELSE /\ failing = {} /\ fault = "none"
            /\ mqttCalls' = <<>>
            /\ lastOp' = Op("_on_connect", "", "returned", [rc |-> rc])
            /\ UNCHANGED << connected, catalogPubs, threads >>
    /\ UNCHANGED << envVars, published, commanded, discovery_sent, last_publish, now,
                    configDB, pollCtx >>

\* what _on_disconnect found: the result code and the flags before it ran
DisconnectArg(rc) == [rc |-> rc, was_connected |-> connected, was_sent |-> discovery_sent]

\* _on_disconnect that forgets the discovery flag
_on_disconnect_keeps_sent(rc) ==
    /\ ClientRunning
    /\ connected' = FALSE
    /\ discovery_sent' = discovery_sent
    /\ catalogPubs' = 0
    /\ mqttCalls' = <<>>
    /\ lastOp' = Op("_on_disconnect", "", "returned", DisconnectArg(rc))
    /\ UNCHANGED << envVars, published, commanded, last_publish, now, configDB, pollCtx, threads >>

\* _on_disconnect(client, userdata, rc)
_on_disconnect(rc) ==
    /\ ClientRunning
    /\ connected' = FALSE
    /\ discovery_sent' = FALSE
    /\ catalogPubs' = 0
    /\ mqttCalls' = <<>>
    /\ lastOp' = Op("_on_disconnect", "", "returned", DisconnectArg(rc))
    /\ UNCHANGED << envVars, published, commanded, last_publish, now, configDB, pollCtx, threads >>

\* what _on_message did: the topic, the decoded and stripped payload handed
\* to the handler (Absent when the callback failed before the dispatch)
MessageArg(msg, decoded, payload) ==
    [topic |-> msg.topic,
     payload |-> IF decoded THEN payload ELSE Absent,
     handler |-> IF decoded THEN Dispatch(msg.topic) ELSE "none"]

\* _on_message that publishes the state after a command
_on_message_publishing(msg, fault) ==
    /\ ClientRunning
    /\ \E decoded \in {DecodeOk(msg.payload) /\ fault = "none"},
          payload \in {strip(msg.payload)} :
           /\ configDB' = IF decoded
                          THEN Handle(configDB, stateDict, msg.topic, payload)
                          ELSE configDB
           /\ lastOp' = Op("_on_message", "", "returned", MessageArg(msg, decoded, payload))
           /\ mqttCalls' = IF decoded /\ Dispatch(msg.topic) # "unknown"
                           THEN << Publish(StateTopic, Absent, FALSE, TRUE) >>
                           ELSE <<>>
    /\ UNCHANGED << envVars, published, connected, discovery_sent, last_publish, now,
                    pollCtx, threads, catalogPubs >>

\* _on_message(client, userdata, msg); msg = [topic, payload (bytes)]
_on_message(msg, fault) ==
    /\ ClientRunning
    /\ \E decoded \in {DecodeOk(msg.payload) /\ fault = "none"},
          payload \in {strip(msg.payload)} :
           /\ configDB' = IF decoded
                          THEN Handle(configDB, stateDict, msg.topic, payload)
                          ELSE configDB
           /\ lastOp' = Op("_on_message", "", "returned", MessageArg(msg, decoded, payload))
    /\ mqttCalls' = <<>>
    /\ UNCHANGED << envVars, published, connected, discovery_sent, last_publish, now,
                    pollCtx, threads, catalogPubs >>

(***************************************************************************)
(* _publish_state and poll(), run by the host's main loop.                 *)
(***************************************************************************)
BoolText(b) == IF b THEN "true" ELSE "false"

\* current_mode that tests the switch plugin alone before the scheduler
current_mode_switch_first(switch_enabled, scheduler_enabled) ==
    IF switch_enabled THEN "manual"
    ELSE IF scheduler_enabled THEN "schedule"
    ELSE "off"

\* current_mode that knows no mode but manual and schedule
current_mode_two_modes(switch_enabled, scheduler_enabled) ==
    IF switch_enabled /\ ~scheduler_enabled THEN "manual"
    ELSE "schedule"

\* current_mode of _publish_state
current_mode(switch_enabled, scheduler_enabled) ==
    IF switch_enabled /\ ~scheduler_enabled THEN "manual"
    ELSE IF scheduler_enabled /\ ~switch_enabled THEN "schedule"
    ELSE "off"

\* state_payload whose vehicle_connected leaves out the charging states
state_payload_plug_states_only(db, sd, t) ==
    LET charger_state_id == DictGet(sd, "eo_charger_state_id", 0)
        vehicle_connected == charger_state_id \in {7, 8, 9, 10, 15, 16}
        charging_active == charger_state_id \in {11, 12, 13, 14}
        switch_enabled == ConfigGet(db, SWITCH, "enabled", FALSE)
        scheduler_enabled == ConfigGet(db, SCHEDULER, "enabled", FALSE)
    IN  [charger_state_id |-> charger_state_id,
         vehicle_connected |-> BoolText(vehicle_connected),
         charging_active |-> BoolText(charging_active),
         mode |-> current_mode(switch_enabled, scheduler_enabled),
         switch_on |-> ConfigGet(db, SWITCH, "on", FALSE),
         switch_enabled |-> ConfigGet(db, SWITCH, "enabled", FALSE),
         timestamp |-> t]

\* state_payload of _publish_state (the telemetry copied verbatim is left out)
state_payload(db, sd, t) ==
    LET charger_state_id == DictGet(sd, "eo_charger_state_id", 0)
        vehicle_connected == charger_state_id \in {7, 8, 9, 10, 11, 12, 13, 14, 15, 16}
        charging_active == charger_state_id \in {11, 12, 13, 14}
        switch_enabled == ConfigGet(db, SWITCH, "enabled", FALSE)
        scheduler_enabled == ConfigGet(db, SCHEDULER, "enabled", FALSE)
    IN  [charger_state_id |-> charger_state_id,
         vehicle_connected |-> BoolText(vehicle_connected),
         charging_active |-> BoolText(charging_active),
         mode |-> current_mode(switch_enabled, scheduler_enabled),
         switch_on |-> ConfigGet(db, SWITCH, "on", FALSE),
         switch_enabled |-> ConfigGet(db, SWITCH, "enabled", FALSE),
         timestamp |-> t]

PollReturn(step) == Op("poll", step, "returned", [result |-> 0])
PollRaise(step) == Op("poll", step, "raised", [result |-> Absent])

\* poll(), lines 535-546: the enabled test, the clock, the discovery retry
\* and the interval test (last_publish is written by poll() alone)
PollBegin(fault) ==
    /\ pollCtx.pc = "idle"
    /\ mqttCalls' = <<>>
    /\ IF ~MQTT_AVAILABLE
       THEN /\ fault = "none"
            /\ lastOp' = PollReturn("begin")
            /\ UNCHANGED << pollCtx, threads >>
       ELSE IF fault = "get_config"
       THEN /\ lastOp' = PollRaise("begin")
            /\ UNCHANGED << pollCtx, threads >>
       ELSE IF ~pluginConfig.enabled
       THEN /\ fault = "none"
            /\ lastOp' = PollReturn("begin")
            /\ UNCHANGED << pollCtx, threads >>
       ELSE IF connected /\ ~discovery_sent /\ fault = "thread_start"
       THEN /\ lastOp' = PollRaise("begin")
            /\ UNCHANGED << pollCtx, threads >>
       ELSE /\ fault = "none"
            /\ IF connected /\ ~discovery_sent
               THEN CanSpawn /\ threads' = Spawn(threads)
               ELSE threads' = threads
            /\ IF now - last_publish >= pluginConfig.publish_interval
               THEN /\ pollCtx' = [pc |-> "ps_build", current_time |-> now,
                                   snapshot |-> Absent]
                    /\ lastOp' = Op("poll", "begin", "running", [result |-> Absent])
               ELSE /\ pollCtx' = pollCtx
                    /\ lastOp' = PollReturn("begin")
    /\ UNCHANGED << envVars, published, commanded, connected, discovery_sent, last_publish, now,
                    configDB, catalogPubs >>

\* _publish_state, lines 477-525: the connected test (when it fails poll()
\* goes on to line 548), then the reads of stateDict and configDB,
\* get_config("device_id") and json.dumps, none of them inside a try
PublishBuild(fault) ==
    /\ pollCtx.pc = "ps_build"
    /\ mqttCalls' = <<>>
    /\ IF ~connected
       THEN /\ fault = "none"
            /\ last_publish' = pollCtx.current_time
            /\ pollCtx' = PollIdle
            /\ lastOp' = PollReturn("ps_build")
       ELSE IF fault = "none"
       THEN /\ last_publish' = last_publish
            /\ pollCtx' = [pollCtx EXCEPT !.pc = "ps_publish",
                              !.snapshot = state_payload(configDB, stateDict, now)]
            /\ lastOp' = Op("poll", "ps_build", "running", [result |-> Absent])
       ELSE /\ last_publish' = last_publish
            /\ pollCtx' = PollIdle
            /\ lastOp' = PollRaise("ps_build")
    /\ UNCHANGED << envVars, published, commanded, connected, discovery_sent, now, configDB,
                    threads, catalogPubs >>

\* _publish_state, lines 527-531, then poll(), lines 548-551
PublishSend(ok) ==
    /\ pollCtx.pc = "ps_publish"
    /\ mqttCalls' = << Publish(StateTopic, pollCtx.snapshot, FALSE, ok) >>
    /\ last_publish' = pollCtx.current_time
    /\ pollCtx' = PollIdle
    /\ lastOp' = PollReturn("ps_publish")
    /\ UNCHANGED << envVars, published, commanded, connected, discovery_sent, now, configDB,
                    threads, catalogPubs >>

(***************************************************************************)
(* _send_discovery, run by a daemon thread.                                *)
(***************************************************************************)
Replace(ts, t, u) == (ts (-) SetToBag({t})) (+) SetToBag({u})
Remove(ts, t) == ts (-) SetToBag({t})

\* documents whose unique_id carries the number of the run that built them
config_numbered(i, t) ==
    IF all_entities[i].component = "number"
    THEN [unique_id |-> << device_id, all_entities[i].object_id, catalogPubs >>,
          state_topic |-> StateTopic,
          min |-> MIN_CHARGING_CURRENT,
          max |-> t.max]
    ELSE [unique_id |-> << device_id, all_entities[i].object_id, catalogPubs >>,
          state_topic |-> StateTopic]

\* the discovery document of entity i built by thread t: the fields every
\* entity has, and the optional fields (min, max) of the entities that have them
config(i, t) ==
    IF all_entities[i].component = "number"
    THEN [unique_id |-> << device_id, all_entities[i].object_id >>,
          state_topic |-> StateTopic,
          min |-> MIN_CHARGING_CURRENT,
          max |-> t.max]
    ELSE [unique_id |-> << device_id, all_entities[i].object_id >>,
          state_topic |-> StateTopic]


\* a number entity whose max is the fixed constant
max_allowed_current_static(sd) == MAX_CHARGING_CURRENT

\* max_allowed_current = min(MAX_CHARGING_CURRENT,
\*                           stateDict.get("eo_overall_limit_current", MAX))
max_allowed_current(sd) ==
    Min(MAX_CHARGING_CURRENT, DictGet(sd, "eo_overall_limit_current", MAX_CHARGING_CURRENT))

\* lines 270-446: the connected test and the construction of the catalog
DiscoveryStart(t) ==
    /\ t \in BagToSet(threads)
    /\ t.pc = 0
    /\ threads' = IF ~connected THEN Remove(threads, t)
                  ELSE Replace(threads, t,
                               [t EXCEPT !.pc = 1, !.max = max_allowed_current(stateDict)])
    /\ mqttCalls' = <<>>
    /\ lastOp' = Op("_send_discovery", "start",
                    IF connected THEN "running" ELSE "returned", Absent)
    /\ UNCHANGED << envVars, published, commanded, connected, discovery_sent, last_publish, now,
                    configDB, pollCtx, catalogPubs >>

\* a loop whose try statement encloses the whole loop: the first failing
\* publish ends it
DiscoveryPublish_aborting(t, ok) ==
    /\ t \in BagToSet(threads)
    /\ t.pc \in 1..Len(all_entities)
    /\ mqttCalls' = << Publish(DiscoveryTopic(all_entities[t.pc]), config(t.pc, t), TRUE, ok) >>
    /\ threads' = Replace(threads, t,
                     [t EXCEPT !.pc = IF ok THEN t.pc + 1 ELSE Len(all_entities) + 1,
                               !.attempts = t.attempts + 1])
    /\ catalogPubs' = IF t.pc = Len(all_entities)
                      THEN catalogPubs + 1 ELSE catalogPubs
    /\ lastOp' = Op("_send_discovery", "publish", "running", [entity |-> t.pc])
    /\ UNCHANGED << envVars, commanded, connected, discovery_sent, last_publish, now,
                    configDB, pollCtx >>

\* lines 449-470: one turn of the loop; a failing publish is logged
DiscoveryPublish(t, ok) ==
    /\ t \in BagToSet(threads)
    /\ t.pc \in 1..Len(all_entities)
    /\ mqttCalls' = << Publish(DiscoveryTopic(all_entities[t.pc]), config(t.pc, t), TRUE, ok) >>
    /\ threads' = Replace(threads, t,
                     [t EXCEPT !.pc = t.pc + 1, !.attempts = t.attempts + 1])
    /\ catalogPubs' = IF t.pc = Len(all_entities)
                      THEN catalogPubs + 1 ELSE catalogPubs
    /\ lastOp' = Op("_send_discovery", "publish", "running", [entity |-> t.pc])
    /\ UNCHANGED << envVars, commanded, connected, discovery_sent, last_publish, now,
                    configDB, pollCtx >>

\* lines 472-473
DiscoveryFinish(t) ==
    /\ t \in BagToSet(threads)
    /\ t.pc = Len(all_entities) + 1
    /\ discovery_sent' = TRUE
    /\ threads' = Remove(threads, t)
    /\ mqttCalls' = <<>>
    /\ lastOp' = Op("_send_discovery", "finish", "returned", [attempts |-> t.attempts])
    /\ UNCHANGED << envVars, published, commanded, connected, last_publish, now, configDB, pollCtx,
                    catalogPubs >>

(***************************************************************************)
(* The clock.                                                              *)
(***************************************************************************)
Tick ==
    /\ now < MaxTime
    /\ now' = now + 1
    /\ UNCHANGED << envVars, published, commanded, connected, discovery_sent, last_publish,
                    configDB,
                    pollCtx, threads, catalogPubs, mqttCalls, lastOp >>

(***************************************************************************)
(* Messages.                                                               *)
(***************************************************************************)
Msg(topic, payload) == [topic |-> topic, payload |-> payload]

\* payloads sent to .../command/switch/set
SwitchPayloads == {
    <<"O","N">>, <<"o","n">>, <<"O","n">>, <<"T","R","U","E">>,
    <<"t","r","u","e">>, <<"1">>, <<"O","F","F">>, <<"0">>, <<>>,
    <<" ","O","N","\n">>, <<"O","N","N">>, <<"O","xFF">>,
    <<"m","a","n","u","a","l">> }

\* payloads sent to .../command/current_limit/set
CurrentLimitPayloads == {
    <<"1","5">>, <<"1","5",".","7">>, <<"6">>, <<"5",".","9">>, <<"3","2">>,
    <<"3","2",".","9">>, <<"3","3">>, <<"1","0","0">>, <<"a","b","c">>, <<>>,
    <<"-","6">>, <<"1","e","1">>, <<"n","a","n">>, <<"i","n","f">>,
    <<"1","_","0">>, <<" ","1","5"," ">>, <<"6","0","e","-","1">>,
    <<"0","x","1","0">>, <<"O","N">> }

\* payloads sent to .../command/mode/set
ModePayloads == {
    <<"m","a","n","u","a","l">>, <<"M","A","N","U","A","L">>,
    <<"s","c","h","e","d","u","l","e">>, <<"S","c","h","e","d","u","l","e">>,
    <<"o","f","f">>, <<"O","F","F">>, <<"b","o","g","u","s">>, <<>>,
    <<" ","m","a","n","u","a","l"," ">>, <<"1","5">> }

\* payloads sent to .../command/enable_plugin/set
EnablePluginPayloads == {
    <<"s","c","h","e","d","u","l","e","r",":","t","r","u","e">>,
    <<"s","c","h","e","d","u","l","e","r",":","f","a","l","s","e">>,
    <<"s","w","i","t","c","h",":","O","N">>,
    <<"s","w","i","t","c","h",":","0">>,
    <<"l","o","a","d","m","a","n","a","g","e","m","e","n","t",":","e","n","a","b","l","e","d">>,
    <<"l","o","a","d","m","a","n","a","g","e","m","e","n","t",":","n","o">>,
    <<"h","a","c","k","e","r",":","t","r","u","e">>,
    <<"s","w","i","t","c","h">>,
    <<"S","w","i","t","c","h",":","t","r","u","e">>, <<":","t","r","u","e">>,
    <<"s","c","h","e","d","u","l","e","r",":","t","r","u","e",":","x">>,
    <<"s","w","i","t","c","h"," ",":","t","r","u","e">>,
    <<"s","c","h","e","d","u","l","e","r",":">>,
    <<" ","s","w","i","t","c","h",":","1","\n">> }

\* payloads sent to topics that are not command topics
OtherPayloads == {
    <<"O","N">>, <<"h","a","c","k","e","r",":","t","r","u","e">> }

\* a command topic of another device, and a command topic cut short
OtherTopics == { StateTopic,
                 <<"openeo", "another_charger", "command", "switch", "set">>,
                 <<"openeo", device_id, "command", "enable_plugin">> }

CommandMessages ==
    {Msg(CommandTopic("switch"), p) : p \in SwitchPayloads}
    \cup {Msg(CommandTopic("current_limit"), p) : p \in CurrentLimitPayloads}
    \cup {Msg(CommandTopic("mode"), p) : p \in ModePayloads}
    \cup {Msg(CommandTopic("enable_plugin"), p) : p \in EnablePluginPayloads}
    \cup {Msg(t, p) : t \in OtherTopics, p \in OtherPayloads}

(***************************************************************************)
(* The plugin: callbacks, poll() and discovery threads interleaved.        *)
(***************************************************************************)
Faults == {"none", "get_config", "thread_start"}

Init ==
    /\ MQTT_AVAILABLE \in BOOLEAN
    /\ pluginConfig \in {[enabled |-> e, publish_interval |-> 1] : e \in BOOLEAN}
    /\ connected = FALSE
    /\ discovery_sent = FALSE
    /\ last_publish = 0
    /\ now = pluginConfig.publish_interval
    /\ configDB = EmptyDict
    /\ stateDict = EmptyDict
    /\ pollCtx = PollIdle
    /\ threads = EmptyBag
    /\ catalogPubs = 0
    /\ published = {}
    /\ commanded = "none"
    /\ mqttCalls = <<>>
    /\ lastOp = Op("__init__", "", "returned", Absent)

Connect == \E rc \in ConnectCodes, failing \in SubscribeFailures, fault \in Faults :
               _on_connect(rc, failing, fault)
Disconnect == \E rc \in DisconnectCodes : _on_disconnect(rc)
poll ==
    \/ \E fault \in Faults : PollBegin(fault)
    \/ \E fault \in {"none", "json_dumps"} : PublishBuild(fault)
    \/ \E ok \in BOOLEAN : PublishSend(ok)
_send_discovery ==
    \E t \in BagToSet(threads) :
        \/ DiscoveryStart(t)
        \/ \E ok \in BOOLEAN : DiscoveryPublish(t, ok) /\ UNCHANGED published
        \/ DiscoveryFinish(t)

Next == Connect \/ Disconnect \/ poll \/ _send_discovery \/ Tick

Spec == Init /\ [][Next]_vars

TypeOK ==
    /\ connected \in BOOLEAN /\ discovery_sent \in BOOLEAN
    /\ last_publish \in 0..MaxTime /\ now \in 0..MaxTime
    /\ BagCardinality(threads) <= MaxThreads

\* The host's main loop calls poll() again and again and lets a started
\* poll() run on, and the interpreter schedules every started thread: a
\* poll() whose calls do not fail, and the steps of the discovery threads,
\* are taken if they stay possible.  Failures, connection events and the
\* clock are under no obligation.
Fairness ==
    /\ WF_vars(PollBegin("none"))
    /\ WF_vars(PublishBuild("none"))
    /\ WF_vars(\E ok \in BOOLEAN : PublishSend(ok))
    /\ WF_vars(_send_discovery)

SpecLive == Init /\ [][Next]_vars /\ Fairness

(***************************************************************************)
(* The command dispatcher: messages delivered one after the other to a     *)
(* plugin whose connection is at rest, from each initial store.            *)
(***************************************************************************)
Store(sw_enabled, sch_enabled) ==
    ConfigSet(ConfigSet(EmptyDict, SWITCH, "enabled", sw_enabled),
              SCHEDULER, "enabled", sch_enabled)

InitStores == { EmptyDict, Store(TRUE, TRUE),
                ConfigSet(ConfigSet(Store(FALSE, TRUE), SWITCH, "on", TRUE),
                          SWITCH, "amps", 15) }

\* stateDict with the user-configured overall limit absent, below and above
\* MAX_CHARGING_CURRENT
InitStateDicts == { EmptyDict } \cup
    { [k \in {"eo_overall_limit_current"} |-> v] : v \in {10, 40} }

InitCmd ==
    /\ MQTT_AVAILABLE = TRUE
    /\ pluginConfig = [enabled |-> TRUE, publish_interval |-> 1]
    /\ connected = TRUE
    /\ discovery_sent = TRUE
    /\ last_publish = 1
    /\ now = 1
    /\ configDB \in InitStores
    /\ stateDict \in InitStateDicts
    /\ pollCtx = PollIdle
    /\ threads = EmptyBag
    /\ catalogPubs = 1
    /\ published = {}
    /\ commanded = "none"
    /\ mqttCalls = <<>>
    /\ lastOp = Op("__init__", "", "returned", Absent)

\* get_config("device_id") is called before the dispatch: its failure is
\* delivered with one message of each command topic
FaultMessages == { Msg(CommandTopic("switch"), <<"O","N">>),
                   Msg(CommandTopic("current_limit"), <<"1","5">>),
                   Msg(CommandTopic("mode"), <<"o","f","f">>),
                   Msg(CommandTopic("enable_plugin"), <<"s","w","i","t","c","h",":","0">>) }

Message ==
    \/ \E msg \in CommandMessages : _on_message(msg, "none") /\ UNCHANGED commanded
    \/ \E msg \in FaultMessages : _on_message(msg, "get_config") /\ UNCHANGED commanded

NextCmd == Message

SpecCmd == InitCmd /\ [][NextCmd]_vars

(***************************************************************************)
(* Discovery observed: a plugin whose client connects once and stays       *)
(* connected, the host's poll() between two publish intervals, the         *)
(* discovery threads, and current_limit commands; an observer of the       *)
(* client records every retained document in published.                    *)
(***************************************************************************)
\* a document handed to mqtt_client.publish(topic, payload, retain=True)
Document(topic, payload) == [topic |-> topic, payload |-> payload]
\* the retained documents among the client calls of one step
Retained(calls) ==
    { Document(calls[i].topic, calls[i].payload) :
          i \in { j \in 1..Len(calls) : calls[j].call = "publish" /\ calls[j].retain } }

\* stateDict with the overall limit absent, below MIN_CHARGING_CURRENT,
\* inside the range and above MAX_CHARGING_CURRENT
DiscStateDicts == { EmptyDict } \cup
    { [k \in {"eo_overall_limit_current"} |-> v] : v \in {4, 10, 40} }

InitDisc ==
    /\ MQTT_AVAILABLE = TRUE
    /\ pluginConfig = [enabled |-> TRUE, publish_interval |-> 1]
    /\ connected = FALSE
    /\ discovery_sent = FALSE
    /\ last_publish = 1
    /\ now = 1
    /\ configDB = EmptyDict
    /\ stateDict \in DiscStateDicts
    /\ pollCtx = PollIdle
    /\ threads = EmptyBag
    /\ catalogPubs = 0
    /\ published = {}
    /\ commanded = "none"
    /\ mqttCalls = <<>>
    /\ lastOp = Op("__init__", "", "returned", Absent)

\* whole-number payloads sent to .../command/current_limit/set
LimitPayloads == { <<"5">>, <<"6">>, <<"1","0">>, <<"1","1">>, <<"3","2">>, <<"3","3">> }

\* poll() while the publish interval has not elapsed: lines 535-546 and 551
DiscoveryRetry == \E fault \in Faults : PollBegin(fault)
DiscoveryObserved ==
    \E t \in BagToSet(threads) :
        \/ DiscoveryStart(t)
        \/ \E ok \in BOOLEAN :
               DiscoveryPublish(t, ok) /\ published' = published \cup Retained(mqttCalls')
        \/ DiscoveryFinish(t)
LimitMessage ==
    \E p \in LimitPayloads :
        _on_message(Msg(CommandTopic("current_limit"), p), "none") /\ UNCHANGED commanded

NextDisc == Connect \/ DiscoveryRetry \/ DiscoveryObserved \/ LimitMessage

SpecDisc == InitDisc /\ [][NextDisc]_vars

(***************************************************************************)
(* The state publisher: poll() and the clock on an established session,    *)
(* from each content of the config store and each charger state.           *)
(***************************************************************************)
\* eo_charger_state_id: the states of the charger, and one id past them
ChargerStateIds == 0..17

\* stores with switch.enabled and scheduler.enabled absent, false or true
PubStores ==
    { [k \in ({<<SWITCH, "enabled">>} \cap sw) \cup ({<<SCHEDULER, "enabled">>} \cap sc)
          |-> IF k[1] = SWITCH THEN v ELSE w] :
        sw \in SUBSET {<<SWITCH, "enabled">>}, sc \in SUBSET {<<SCHEDULER, "enabled">>},
        v \in BOOLEAN, w \in BOOLEAN }

PubStateDicts == { EmptyDict } \cup
    { [k \in {"eo_charger_state_id"} |-> id] : id \in ChargerStateIds }

InitPub ==
    /\ MQTT_AVAILABLE = TRUE
    /\ pluginConfig = [enabled |-> TRUE, publish_interval |-> 1]
    /\ connected = TRUE
    /\ discovery_sent = TRUE
    /\ last_publish = 0
    /\ now = 1
    /\ configDB \in PubStores
    /\ stateDict \in PubStateDicts
    /\ pollCtx = PollIdle
    /\ threads = EmptyBag
    /\ catalogPubs = 1
    /\ published = {}
    /\ commanded = "none"
    /\ mqttCalls = <<>>
    /\ lastOp = Op("__init__", "", "returned", Absent)

NextPub == poll \/ Tick

SpecPub == InitPub /\ [][NextPub]_vars

(***************************************************************************)
(* Properties.                                                             *)
(***************************************************************************)
\* the store db holds value v under (plugin, key)
Holds(db, plugin, key, v) ==
    << plugin, key >> \in DOMAIN db /\ db[<< plugin, key >>] = v
\* the stores d and e agree on key k: both lack it or both hold one value
SameAt(d, e, k) ==
    /\ k \in DOMAIN d <=> k \in DOMAIN e
    /\ k \in DOMAIN d => d[k] = e[k]
\* two texts that differ at most in the case of their letters
SameIgnoringCase(a, b) ==
    /\ Len(a) = Len(b)
    /\ \A i \in 1..Len(a) : a[i] = b[i] \/ UpperChar(a[i]) = b[i] \/ a[i] = UpperChar(b[i])
\* the last step handed a payload to the handler h
Handled(op, h) == op.op = "_on_message" /\ op.arg.handler = h

\* C1: between a successful connect event and the next disconnect event the
\* discovery catalog is published at most once, whatever the interleaving of
\* the connect callback, the discovery threads and poll().
C1_DiscoveryAtMostOnce == catalogPubs <= 1

\* C2: a state snapshot is published to openeo/{device_id}/state only while
\* connected is true.
C2_StatePublishWhileConnected ==
    \A i \in 1..Len(mqttCalls) :
        (mqttCalls[i].call = "publish" /\ mqttCalls[i].topic = StateTopic) => connected

\* C3: handling an inbound message never publishes to MQTT and changes
\* nothing but the shared config store: connected, discovery_sent,
\* last_publish and the rest of the plugin's state stay as they were.
C3_MessageFrame ==
    [][ lastOp'.op = "_on_message" =>
          /\ mqttCalls' = <<>>
          /\ UNCHANGED << connected, discovery_sent, last_publish, pollCtx,
                          threads, catalogPubs >> ]_vars
C3_Witness ==
    /\ Handled(lastOp, "switch")
    /\ connected /\ discovery_sent /\ last_publish = 1
    /\ Holds(configDB, SWITCH, "on", TRUE)

\* C4: after a switch/set command switch.enabled is true, scheduler.enabled
\* is false, and switch.on is true exactly when the payload is ON, TRUE or 1
\* up to the case of its letters.
C4_SwitchCommand ==
    Handled(lastOp, "switch") =>
        /\ Holds(configDB, SWITCH, "enabled", TRUE)
        /\ Holds(configDB, SCHEDULER, "enabled", FALSE)
        /\ Holds(configDB, SWITCH, "on",
                 \E w \in { <<"O","N">>, <<"T","R","U","E">>, <<"1">> } :
                     SameIgnoringCase(lastOp.arg.payload, w))
C4_Witness ==
    /\ Handled(lastOp, "switch")
    /\ lastOp.arg.payload = <<"t","r","u","e">>
    /\ Holds(configDB, SWITCH, "on", TRUE)

\* int(float(text)) of the numeric payloads, as Python computes it; the
\* texts outside the domain make float() or int() raise
Truncation ==
    ( <<"1","5">> :> 15 ) @@ ( <<"1","5",".","7">> :> 15 ) @@ ( <<"6">> :> 6 ) @@
    ( <<"5",".","9">> :> 5 ) @@ ( <<"3","2">> :> 32 ) @@ ( <<"3","2",".","9">> :> 32 ) @@
    ( <<"3","3">> :> 33 ) @@ ( <<"1","0","0">> :> 100 ) @@ ( <<"-","6">> :> -6 ) @@
    ( <<"1","e","1">> :> 10 ) @@ ( <<"1","_","0">> :> 10 ) @@
    ( <<"6","0","e","-","1">> :> 6 )
\* the largest current a command may set: min(MAX, overall limit or MAX)
UpperLimit ==
    LET overall == IF "eo_overall_limit_current" \in DOMAIN stateDict
                   THEN stateDict["eo_overall_limit_current"]
                   ELSE MAX_CHARGING_CURRENT
    IN  IF overall < MAX_CHARGING_CURRENT THEN overall ELSE MAX_CHARGING_CURRENT
\* the payload is a number whose truncation lies in the accepted range
InRange(payload) ==
    /\ payload \in DOMAIN Truncation
    /\ MIN_CHARGING_CURRENT <= Truncation[payload]
    /\ Truncation[payload] <= UpperLimit

\* C5: a current_limit/set command whose payload is a number with truncation
\* v in [MIN_CHARGING_CURRENT, min(MAX_CHARGING_CURRENT, overall limit or
\* MAX_CHARGING_CURRENT)] sets switch.amps = v, switch.enabled = true and
\* scheduler.enabled = false.
C5_CurrentLimitAccepted ==
    (Handled(lastOp, "current_limit") /\ InRange(lastOp.arg.payload)) =>
        /\ Holds(configDB, SWITCH, "amps", Truncation[lastOp.arg.payload])
        /\ Holds(configDB, SWITCH, "enabled", TRUE)
        /\ Holds(configDB, SCHEDULER, "enabled", FALSE)
C5_Witness ==
    /\ Handled(lastOp, "current_limit")
    /\ lastOp.arg.payload = <<"3","2",".","9">>
    /\ Holds(configDB, SWITCH, "amps", 32)

\* C6: a current_limit/set command whose payload is unparsable or whose
\* truncated value is out of range changes no key of the config store.
C6_CurrentLimitRejected ==
    [][ (Handled(lastOp', "current_limit") /\ ~InRange(lastOp'.arg.payload))
          => configDB' = configDB ]_vars
C6_Witness ==
    /\ Handled(lastOp, "current_limit")
    /\ lastOp.arg.payload = <<"3","3">>
    /\ DictGet(stateDict, "eo_overall_limit_current", 0) = 40
    /\ << SWITCH, "amps" >> \notin DOMAIN configDB

\* C7: mode/set with payload manual, schedule or off (in any case) sets the
\* two enabled flags accordingly, any other payload changes nothing, and
\* switch.on and switch.amps are never changed.
C7_ModeCommand ==
    [][ Handled(lastOp', "mode") =>
          LET payload == lastOp'.arg.payload
          IN  /\ SameIgnoringCase(payload, MANUAL) =>
                    /\ Holds(configDB', SWITCH, "enabled", TRUE)
                    /\ Holds(configDB', SCHEDULER, "enabled", FALSE)
              /\ SameIgnoringCase(payload, SCHEDULE) =>
                    /\ Holds(configDB', SCHEDULER, "enabled", TRUE)
                    /\ Holds(configDB', SWITCH, "enabled", FALSE)
              /\ SameIgnoringCase(payload, OFF) =>
                    /\ Holds(configDB', SCHEDULER, "enabled", FALSE)
                    /\ Holds(configDB', SWITCH, "enabled", FALSE)
              /\ (\A m \in {MANUAL, SCHEDULE, OFF} : ~SameIgnoringCase(payload, m))
                    => configDB' = configDB
              /\ SameAt(configDB', configDB, << SWITCH, "on" >>)
              /\ SameAt(configDB', configDB, << SWITCH, "amps" >>) ]_vars
C7_Witness ==
    /\ Handled(lastOp, "mode")
    /\ lastOp.arg.payload = <<"S","c","h","e","d","u","l","e">>
    /\ Holds(configDB, SCHEDULER, "enabled", TRUE)
    /\ Holds(configDB, SWITCH, "enabled", FALSE)
    /\ Holds(configDB, SWITCH, "on", TRUE)

\* the payload names an allowed plugin before its first colon
NamesAllowedPlugin(payload, name) ==
    /\ name \in { SCHEDULER, SWITCH, LOADMANAGEMENT }
    /\ Len(payload) > Len(name)
    /\ SubSeq(payload, 1, Len(name)) = name
    /\ payload[Len(name) + 1] = ":"

\* C8: an enable_plugin/set command writes <plugin_name>.enabled only when
\* the payload has a colon and the text before the first colon is scheduler,
\* switch or loadmanagement; otherwise it changes no key, so the store never
\* holds a key of a plugin outside the allow-list.
C8_EnablePluginAllowList ==
    /\ [][ Handled(lastOp', "enable_plugin") =>
             \A k \in (DOMAIN configDB') \cup (DOMAIN configDB) :
                 ~SameAt(configDB', configDB, k) =>
                     /\ NamesAllowedPlugin(lastOp'.arg.payload, k[1])
                     /\ k[2] = "enabled" ]_vars
    /\ [](\A k \in DOMAIN configDB : k[1] \in { SCHEDULER, SWITCH, LOADMANAGEMENT })
C8_Witness ==
    /\ Handled(lastOp, "enable_plugin")
    /\ lastOp.arg.payload = <<"h","a","c","k","e","r",":","t","r","u","e">>
    /\ Holds(configDB, LOADMANAGEMENT, "enabled", TRUE)
    /\ \A k \in DOMAIN configDB : k[1] # <<"h","a","c","k","e","r">>

\* C9: no failure escapes the connect, disconnect and message callbacks or
\* poll(): each of them returns normally.
C9_NoFailureEscapes ==
    lastOp.op \in {"_on_connect", "_on_disconnect", "_on_message", "poll"}
        => lastOp.outcome # "raised"

\* C10: right after the disconnect callback connected and discovery_sent are
\* both false, whatever they were before and whatever the result code.
C10_DisconnectResets ==
    lastOp.op = "_on_disconnect" => (~connected /\ ~discovery_sent)
C10_Witness ==
    /\ lastOp.op = "_on_disconnect"
    /\ lastOp.arg.was_connected /\ lastOp.arg.was_sent
    /\ lastOp.arg.rc = 0
    /\ ~connected /\ ~discovery_sent

\* the last step was a publish() call of a discovery run
DiscoveryCall(op, calls) ==
    op.op = "_send_discovery" /\ op.step = "publish" /\ Len(calls) = 1
\* a topic of the form {discovery_prefix}/{component}/{device_id}/{object_id}/config
IsConfigTopic(topic) ==
    /\ Len(topic) = 5
    /\ topic[1] = "homeassistant" /\ topic[3] = "openeo_charger_1" /\ topic[5] = "config"
    /\ topic[2] \in {"sensor", "binary_sensor", "switch", "number", "select"}

\* C11: a discovery run that found connected = true makes exactly 15
\* publish attempts, each retained and each to a topic
\* {discovery_prefix}/{component}/{device_id}/{object_id}/config of its own;
\* a failed attempt is followed by the next one, and discovery_sent becomes
\* true only with the end of a run that has made its 15 attempts.
C11_DiscoveryRun ==
    /\ [](DiscoveryCall(lastOp, mqttCalls) =>
             /\ mqttCalls[1].call = "publish" /\ mqttCalls[1].retain
             /\ IsConfigTopic(mqttCalls[1].topic))
    /\ [](\A t \in BagToSet(threads) :
             /\ t.attempts <= 15
             /\ t.pc > 0 => Cardinality({ d.topic : d \in published }) >= t.attempts)
    /\ [][ (DiscoveryCall(lastOp', mqttCalls') /\ ~mqttCalls'[1].ok /\ lastOp'.arg.entity < 15)
              => \E t \in BagToSet(threads') :
                     t.attempts = lastOp'.arg.entity /\ t.pc = lastOp'.arg.entity + 1 ]_vars
    /\ [][ (lastOp'.op = "_send_discovery" /\ lastOp'.step = "finish")
              => lastOp'.arg.attempts = 15 ]_vars
    /\ [][ (~discovery_sent /\ discovery_sent')
              => (lastOp'.op = "_send_discovery" /\ lastOp'.step = "finish"
                  /\ lastOp'.arg.attempts = 15) ]_vars
C11_Witness ==
    /\ lastOp.op = "_send_discovery" /\ lastOp.step = "finish"
    /\ lastOp.arg.attempts = 15
    /\ discovery_sent
    /\ Cardinality({ d.topic : d \in published }) = 15
    /\ catalogPubs = 1

\* C12: poll() of a disabled module, or without the MQTT library, makes no
\* client call, starts no discovery thread, leaves connected, discovery_sent
\* and last_publish as they were and returns 0; every other poll() returns
\* 0 as well.
C12_PollReturnsZero ==
    /\ [][ (lastOp'.op = "poll" /\ (~MQTT_AVAILABLE \/ ~pluginConfig.enabled))
              => /\ mqttCalls' = <<>>
                 /\ UNCHANGED << connected, discovery_sent, last_publish, threads >>
                 /\ lastOp'.outcome = "returned" /\ lastOp'.arg.result = 0 ]_vars
    /\ [](lastOp.op = "poll" =>
             \/ lastOp.outcome = "running"
             \/ lastOp.outcome = "returned" /\ lastOp.arg.result = 0)

\* C13: after a successful connect event (the first, or one that follows a
\* disconnect event), if the connection persists, the host keeps calling
\* poll() and the discovery threads are scheduled, then the discovery
\* documents are published again and discovery_sent becomes true.
C13_ReconnectRediscovers ==
    (lastOp.op = "_on_connect" /\ lastOp.arg.rc = 0 /\ connected)
        ~> (~connected \/ (discovery_sent /\ catalogPubs >= 1))

\* the calls are one subscribe to each of the four command topics
SubscribedToCommands(calls) ==
    /\ Len(calls) = 4
    /\ \A i \in 1..4 : calls[i].call = "subscribe"
    /\ { calls[i].topic : i \in 1..4 } =
           { <<"openeo", "openeo_charger_1", "command", name, "set">> :
                 name \in {"switch", "current_limit", "mode", "enable_plugin"} }

\* C14: the connect callback with result code 0 sets connected = true,
\* subscribes to the four command topics and starts one discovery thread
\* that has not run when the callback ends; with a nonzero result code
\* connected is false after it, nothing is subscribed and no thread started.
C14_ConnectCallback ==
    /\ [][ (lastOp'.op = "_on_connect" /\ lastOp'.arg.rc = 0 /\ ~connected)
              => /\ connected'
                 /\ SubscribedToCommands(mqttCalls')
                 /\ threads' = threads (+) SetToBag({[pc |-> 0, max |-> 0, attempts |-> 0]})
                 /\ UNCHANGED << discovery_sent >> ]_vars
    /\ [][ (lastOp'.op = "_on_connect" /\ lastOp'.arg.rc # 0)
              => /\ ~connected'
                 /\ mqttCalls' = <<>>
                 /\ UNCHANGED << threads, discovery_sent >> ]_vars

\* the discovery runs that have passed the test of line 270 and not ended
RunsInProgress ==
    [t \in { u \in BagToSet(threads) : u.pc >= 1 } |-> CopiesIn(t, threads)]

\* C15: at most one execution of the discovery routine is in progress at
\* any time, whatever the connect callback and poll() do.
C15_SingleDiscoveryRun == BagCardinality(RunsInProgress) <= 1

\* C16: an enabled poll() invokes the state publisher and sets last_publish
\* to its current time exactly when current time - last_publish >=
\* publish_interval; otherwise it publishes no state and leaves last_publish
\* as it was; so two state publishes are at least publish_interval apart.
C16_IntervalGate ==
    /\ [][ (lastOp'.op = "poll" /\ lastOp'.step = "begin" /\ now' = now
             /\ MQTT_AVAILABLE /\ pluginConfig.enabled)
              => IF now - last_publish >= pluginConfig.publish_interval
                 THEN pollCtx'.pc = "ps_build" /\ pollCtx'.current_time = now
                 ELSE /\ pollCtx'.pc = "idle" /\ mqttCalls' = <<>>
                      /\ last_publish' = last_publish ]_vars
    /\ [][ (pollCtx.pc # "idle" /\ pollCtx'.pc = "idle")
              => last_publish' = pollCtx.current_time ]_vars
    /\ [][ (\E i \in 1..Len(mqttCalls') : mqttCalls'[i].topic = StateTopic)
              => \/ pollCtx.current_time - last_publish >= pluginConfig.publish_interval
                 \/ UNCHANGED << mqttCalls, lastOp >> ]_vars

\* the state snapshot published by the last step, if it published one
StatePublished == Len(mqttCalls) = 1 /\ mqttCalls[1].topic = StateTopic
Snapshot == mqttCalls[1].payload

\* C17: the mode field of a published state snapshot is manual when
\* switch.enabled is true and scheduler.enabled is not, schedule when
\* scheduler.enabled is true and switch.enabled is not, and off when both
\* are true or neither is.
C17_SnapshotMode ==
    StatePublished =>
        LET sw == Holds(configDB, SWITCH, "enabled", TRUE)
            sc == Holds(configDB, SCHEDULER, "enabled", TRUE)
        IN  /\ (sw /\ ~sc) => Snapshot.mode = "manual"
            /\ (sc /\ ~sw) => Snapshot.mode = "schedule"
            /\ (sw <=> sc) => Snapshot.mode = "off"
C17_Witness ==
    /\ StatePublished
    /\ Holds(configDB, SWITCH, "enabled", TRUE)
    /\ Holds(configDB, SCHEDULER, "enabled", TRUE)
    /\ Snapshot.mode = "off"

\* eo_charger_state_id as the shared state holds it, 0 when it holds none
ChargerStateId ==
    IF "eo_charger_state_id" \in DOMAIN stateDict THEN stateDict["eo_charger_state_id"] ELSE 0

\* C18: in a published state snapshot charging_active is "true" exactly for
\* the charger state ids 11..14 and vehicle_connected is "true" exactly for
\* the ids 7..16, each being "false" otherwise; so charging_active = "true"
\* implies vehicle_connected = "true".
C18_SnapshotFlags ==
    StatePublished =>
        /\ Snapshot.charging_active =
               (IF 11 <= ChargerStateId /\ ChargerStateId <= 14 THEN "true" ELSE "false")
        /\ Snapshot.vehicle_connected =
               (IF 7 <= ChargerStateId /\ ChargerStateId <= 16 THEN "true" ELSE "false")
        /\ Snapshot.charging_active = "true" => Snapshot.vehicle_connected = "true"
C18_Witness ==
    /\ StatePublished
    /\ ChargerStateId = 12
    /\ Snapshot.charging_active = "true" /\ Snapshot.vehicle_connected = "true"

\* the whole numbers the payloads of LimitPayloads denote
WholeNumber ==
    ( <<"5">> :> 5 ) @@ ( <<"6">> :> 6 ) @@ ( <<"1","0">> :> 10 ) @@
    ( <<"1","1">> :> 11 ) @@ ( <<"3","2">> :> 32 ) @@ ( <<"3","3">> :> 33 )
\* the discovery documents of the number entity seen so far
NumberDocuments == { d \in published : d.topic[2] = "number" }

\* C19: the number entity's document advertises min = MIN_CHARGING_CURRENT
\* and max = min(MAX_CHARGING_CURRENT, overall limit or MAX_CHARGING_CURRENT),
\* and under the same shared state a current_limit/set command with a whole
\* number v is accepted exactly when advertised min <= v <= advertised max.
C19_AdvertisedRange ==
    [][ (Handled(lastOp', "current_limit") /\ lastOp'.arg.payload \in DOMAIN WholeNumber)
          => \A d \in NumberDocuments :
                 LET v == WholeNumber[lastOp'.arg.payload]
                 IN  /\ d.payload.min = MIN_CHARGING_CURRENT
                     /\ d.payload.max = UpperLimit
                     /\ IF d.payload.min <= v /\ v <= d.payload.max
                        THEN Holds(configDB', SWITCH, "amps", v)
                        ELSE configDB' = configDB /\ ~Holds(configDB', SWITCH, "amps", v) ]_vars
C19_Witness ==
    /\ Handled(lastOp, "current_limit")
    /\ lastOp.arg.payload = <<"1","0">>
    /\ \E d \in NumberDocuments : d.payload.min = 6 /\ d.payload.max = 10
    /\ Holds(configDB, SWITCH, "amps", 10)
    /\ \A k \in DOMAIN stateDict : stateDict[k] = 10

\* C20: a second run of the discovery routine on the same connection, with
\* the configuration and the shared state unchanged, publishes the same 15
\* topics with the same content: once a run has published its documents, a
\* later publish adds no document and no topic ever has two contents.
C20_DiscoveryIdempotent ==
    /\ [](Cardinality(published) <= 15)
    /\ [](\A d, e \in published : d.topic = e.topic => d.payload = e.payload)
    /\ [][ catalogPubs >= 1 => published' = published ]_vars
C20_Witness ==
    /\ catalogPubs = 2
    /\ Cardinality(published) = 15
    /\ Cardinality({ d.topic : d \in published }) = 15
    /\ lastOp.op = "_send_discovery" /\ lastOp.step = "publish" /\ lastOp.arg.entity = 15

\* C21: in every reachable state discovery_sent = true implies connected =
\* true; a discovery run started before a disconnect never leaves
\* discovery_sent = true while the link is down.
C21_SentImpliesConnected == discovery_sent => connected

\* C22: after any sequence of commands the value of switch.amps, once
\* written, is a whole number in [MIN_CHARGING_CURRENT, MAX_CHARGING_CURRENT],
\* whatever overall limit the shared state holds.
C22_AmpsInRange ==
    << SWITCH, "amps" >> \in DOMAIN configDB =>
        /\ configDB[<< SWITCH, "amps" >>] \in Int
        /\ 6 <= configDB[<< SWITCH, "amps" >>]
        /\ configDB[<< SWITCH, "amps" >>] <= 32
C22_Witness ==
    /\ Handled(lastOp, "current_limit")
    /\ lastOp.arg.payload = <<"3","2">>
    /\ DictGet(stateDict, "eo_overall_limit_current", 0) = 40
    /\ Holds(configDB, SWITCH, "amps", 32)

(***************************************************************************)
(* The mode round trip: switch, current_limit and mode commands arrive on  *)
(* the MQTT thread while the main loop runs poll() on an established       *)
(* session, from each store in which the two plugins are not both enabled. *)
(* An observer notes in commanded the mode the last command asked for.     *)
(***************************************************************************)
ModeStores ==
    { d \in PubStores : ~(Holds(d, SWITCH, "enabled", TRUE)
                            /\ Holds(d, SCHEDULER, "enabled", TRUE)) }

InitMode ==
    /\ MQTT_AVAILABLE = TRUE
    /\ pluginConfig = [enabled |-> TRUE, publish_interval |-> 1]
    /\ connected = TRUE
    /\ discovery_sent = TRUE
    /\ last_publish = 0
    /\ now = 1
    /\ configDB \in ModeStores
    /\ stateDict \in InitStateDicts
    /\ pollCtx = PollIdle
    /\ threads = EmptyBag
    /\ catalogPubs = 1
    /\ published = {}
    /\ commanded = "none"
    /\ mqttCalls = <<>>
    /\ lastOp = Op("__init__", "", "returned", Absent)

\* the commands that write the two enabled flags, enable_plugin/set left out
ModeMessages ==
    { Msg(CommandTopic("switch"), p) : p \in { <<"O","N">>, <<"0">> } } \cup
    { Msg(CommandTopic("current_limit"), p) :
          p \in { <<"1","5">>, <<"3","3">>, <<"a","b","c">> } } \cup
    { Msg(CommandTopic("mode"), p) :
          p \in { <<"m","a","n","u","a","l">>, <<"S","c","h","e","d","u","l","e">>,
                  <<"o","f","f">>, <<"b","o","g","u","s">> } }

\* the mode a handled command asks for; a command that is rejected or names
\* no mode leaves the earlier request standing
Asked(op, earlier) ==
    IF Handled(op, "switch") THEN "manual"
    ELSE IF Handled(op, "current_limit") /\ InRange(op.arg.payload) THEN "manual"
    ELSE IF Handled(op, "mode") /\ SameIgnoringCase(op.arg.payload, MANUAL) THEN "manual"
    ELSE IF Handled(op, "mode") /\ SameIgnoringCase(op.arg.payload, SCHEDULE) THEN "schedule"
    ELSE IF Handled(op, "mode") /\ SameIgnoringCase(op.arg.payload, OFF) THEN "off"
    ELSE earlier

ModeCommand ==
    \E msg \in ModeMessages :
        _on_message(msg, "none") /\ commanded' = Asked(lastOp', commanded)

NextMode == ModeCommand \/ poll \/ Tick

SpecMode == InitMode /\ [][NextMode]_vars

\* C23: starting from a store where switch.enabled and scheduler.enabled are
\* not both true, after any sequence of switch/set, current_limit/set and
\* mode/set commands (no enable_plugin/set command, no other writer)
\* switch.enabled and scheduler.enabled are never both true.
C23_NeverBothEnabled ==
    ~(Holds(configDB, SWITCH, "enabled", TRUE) /\ Holds(configDB, SCHEDULER, "enabled", TRUE))
\* a mode/set schedule command that followed a switch/set command
C23_Witness ==
    /\ Handled(lastOp, "mode")
    /\ commanded = "schedule"
    /\ << SWITCH, "on" >> \in DOMAIN configDB
    /\ Holds(configDB, SWITCH, "enabled", FALSE)
    /\ Holds(configDB, SCHEDULER, "enabled", TRUE)

\* C24 as stated: once a mode/set command with payload m in {manual,
\* schedule, off}, a switch/set command or an accepted current_limit/set
\* command (m = manual) has completed, the next published state snapshot
\* reports mode = m.
C24_NextPublishedSnapshot ==
    (StatePublished /\ mqttCalls[1].ok /\ commanded # "none") => Snapshot.mode = commanded

\* C24: the state snapshot that _publish_state builds after such a command
\* has completed, with no other config write in between, reports mode = m,
\* and it is published as it was built; a snapshot built before the command
\* and published after it still reports the earlier mode.
C24_NextBuiltSnapshot ==
    /\ [][ (pollCtx.pc = "ps_build" /\ pollCtx'.pc = "ps_publish" /\ commanded # "none")
              => pollCtx'.snapshot.mode = commanded ]_vars
    /\ [][ (pollCtx.pc = "ps_publish" /\ pollCtx'.pc = "idle")
              => (StatePublished' /\ Snapshot' = pollCtx.snapshot) ]_vars
C24_Witness ==
    /\ StatePublished /\ mqttCalls[1].ok
    /\ commanded = "off"
    /\ Snapshot.mode = "off"
    /\ << SWITCH, "on" >> \in DOMAIN configDB

====
